---- MODULE Spec2Model ----
(***************************************************************************)
(* The menu scraper of src/scraper/menu_scraper.py as a state machine.     *)
(*                                                                         *)
(* A string is a sequence of one-character strings.  A parsed document is  *)
(* a tree of nodes [tag, class, text, children]: a text node has tag       *)
(* "#text" and carries `text`; an element carries `class` (the empty       *)
(* sequence when the attribute is absent) and `children`.                  *)
(* A Python None / falsy string is the empty sequence; an optional record  *)
(* (a parser's "dict or None") is a sequence of zero or one record.        *)
(***************************************************************************)
EXTENDS Integers, Sequences, FiniteSets, TLC

VARIABLES restaurants, results, trace, pc

vars == <<restaurants, results, trace, pc>>

----------------------------------------------------------------------------
(* Bounds of the model *)

MaxRestaurants == 2
MaxLen == 5
MaxDivs == 11
MaxSections == 2

----------------------------------------------------------------------------
(* Strings *)

Digits == {"0", "1", "2", "3", "4", "5", "6", "7", "8", "9"}

Whitespace == {" ", "\n", "\t"}

UpperCase == <<"A","B","C","D","E","F","G","H","I","J","K","L","M","N","O","P","Q","R","S","T","U","V","W","X","Y","Z">>

LowerCase == <<"a","b","c","d","e","f","g","h","i","j","k","l","m","n","o","p","q","r","s","t","u","v","w","x","y","z">>

\* str.lower() on one character
lower_char(c) ==
    IF \E i \in 1..Len(UpperCase) : UpperCase[i] = c
    THEN LowerCase[CHOOSE i \in 1..Len(UpperCase) : UpperCase[i] = c]
    ELSE c

\* str.lower()
lower(s) == [i \in 1..Len(s) |-> lower_char(s[i])]

\* Python's `sub in s`
contains(sub, s) ==
    \E i \in 0..(Len(s) - Len(sub)) : SubSeq(s, i + 1, i + Len(sub)) = sub

\* str.find, 1-based, from position `from`; 0 when `sub` does not occur
find_from(sub, s, from) ==
    LET hits == {i \in from..(Len(s) - Len(sub) + 1) :
                    SubSeq(s, i, i + Len(sub) - 1) = sub}
    IN  IF hits = {} THEN 0 ELSE CHOOSE i \in hits : \A j \in hits : i <= j

\* str.strip(chars)
strip_chars(s, chars) ==
    LET keep == {i \in 1..Len(s) : s[i] \notin chars}
    IN  IF keep = {} THEN <<>>
        ELSE SubSeq(s, CHOOSE i \in keep : \A j \in keep : i <= j,
                       CHOOSE i \in keep : \A j \in keep : j <= i)

\* str.strip()
strip(s) == strip_chars(s, Whitespace)

RECURSIVE concat(_)
\* the concatenation of a sequence of sequences
concat(seqs) ==
    IF seqs = <<>> THEN <<>> ELSE Head(seqs) \o concat(Tail(seqs))

----------------------------------------------------------------------------
(* The price pattern  \$\d+(?:\.\d+)?  *)

\* the end of the run of digits that starts at position i
digit_run_end(text, i) ==
    CHOOSE j \in i..Len(text) :
        /\ \A k \in i..j : text[k] \in Digits
        /\ (j = Len(text) \/ text[j + 1] \notin Digits)

\* a buggy pattern \$\d+(?:\.\d*)? : the fraction may be empty
price_match_end_empty_fraction(text, i) ==
    LET e1 == digit_run_end(text, i + 1)
    IN  IF e1 + 1 <= Len(text) /\ text[e1 + 1] = "."
        THEN IF e1 + 2 <= Len(text) /\ text[e1 + 2] \in Digits
             THEN digit_run_end(text, e1 + 2)
             ELSE e1 + 1
        ELSE e1

\* the end of the match that starts at position i ("$" and a digit follow)
price_match_end(text, i) ==
    LET e1 == digit_run_end(text, i + 1)
    IN  IF e1 + 2 <= Len(text) /\ text[e1 + 1] = "." /\ text[e1 + 2] \in Digits
        THEN digit_run_end(text, e1 + 2)
        ELSE e1

\* re.search(r'\$\d+(?:\.\d+)?', text): [start, end], start = 0 for no match
price_search(text) ==
    LET hits == {i \in 1..(Len(text) - 1) :
                    text[i] = "$" /\ text[i + 1] \in Digits}
    IN  IF hits = {} THEN [start |-> 0, end |-> 0]
        ELSE LET s == CHOOSE i \in hits : \A j \in hits : i <= j
             IN  [start |-> s, end |-> price_match_end(text, s)]

\* match.group(0)
group_of(text, m) == SubSeq(text, m.start, m.end)

\* price_match.group(0)
price_group(text) == group_of(text, price_search(text))

RECURSIVE remove_prices(_)
RECURSIVE remove_match(_, _)
\* re.sub, from the match m on
remove_match(text, m) ==
    IF m.start = 0 THEN text
    ELSE SubSeq(text, 1, m.start - 1)
            \o remove_prices(SubSeq(text, m.end + 1, Len(text)))

\* re.sub(r'\$\d+(?:\.\d+)?', '', text)
remove_prices(text) == remove_match(text, price_search(text))

----------------------------------------------------------------------------
(* The parsed document *)

TextNode(t) == [tag |-> "#text", class |-> <<>>, text |-> t, children |-> <<>>]

Element(tag, class, children) ==
    [tag |-> tag, class |-> class, text |-> <<>>, children |-> children]

Soup(children) == Element("[document]", <<>>, children)

RECURSIVE strings_of(_)
\* find_all(string=True): the text nodes below `nodes`, in document order
strings_of(nodes) ==
    IF nodes = <<>> THEN <<>>
    ELSE LET n == Head(nodes)
         IN  (IF n.tag = "#text" THEN <<n.text>> ELSE strings_of(n.children))
                \o strings_of(Tail(nodes))

RECURSIVE elements_of(_)
\* the elements below `nodes`, in document order
elements_of(nodes) ==
    IF nodes = <<>> THEN <<>>
    ELSE LET n == Head(nodes)
         IN  (IF n.tag = "#text" THEN <<>>
              ELSE <<n>> \o elements_of(n.children))
                \o elements_of(Tail(nodes))

\* Tag.get_text()
get_text(node) == concat(strings_of(node.children))

\* class_=lambda x: x and (k1 in x.lower() or k2 in x.lower())
class_matches(class, keys) ==
    class /= <<>> /\ \E k \in keys : contains(k, lower(class))

----------------------------------------------------------------------------
(* Structural mode: extract_name, extract_price, extract_description *)

HeadingTags == {"h1", "h2", "h3", "h4", "h5", "h6", "strong", "b"}

\* the first element of a find_all result, stripped; "" when there is none
first_stripped(texts) == IF texts = <<>> THEN <<>> ELSE strip(texts[1])

\* the text of the first heading when there is one, else `fallback`
heading_or(heads, fallback) ==
    IF heads /= <<>> THEN strip(get_text(heads[1])) ELSE fallback

\* extract_name(item); None and "" are both the empty sequence (the callers
\* only test its truth)
extract_name(item) ==
    heading_or(SelectSeq(elements_of(item.children),
                         LAMBDA e : e.tag \in HeadingTags),
               first_stripped(SelectSeq(strings_of(item.children),
                                        LAMBDA t : Len(strip(t)) > 0)))

\* the match in the first of the texts
first_price(hits) == IF hits = <<>> THEN <<>> ELSE price_group(hits[1])

\* extract_price(item); None is the empty sequence
extract_price(item) ==
    first_price(SelectSeq(strings_of(item.children),
                          LAMBDA t : contains(<<"$">>, t)
                                        /\ price_search(t).start > 0))

\* the end of extract_description: "" when the description is the name
description_unless_name(description, name) ==
    IF name /= <<>> /\ lower(description) = lower(name)
    THEN <<>>
    ELSE description

\* extract_description(item)
extract_description(item) ==
    description_unless_name(strip(remove_prices(strip(get_text(item)))),
                            extract_name(item))

----------------------------------------------------------------------------
(* Textual mode: parse_menu_text, parse_spenard_menu_item *)

Separators == {" ", "-"}

Dash == <<" ","-"," ">>

\* the least member of a nonempty set of numbers
least(ks) == CHOOSE k \in ks : \A j \in ks : k <= j

\* the prefix of `text` of the least length in ks; not found when ks is empty
shortest_prefix(text, ks) ==
    IF ks = {} THEN [found |-> FALSE, group |-> <<>>]
    ELSE [found |-> TRUE, group |-> SubSeq(text, 1, least(ks))]

\* re.search(r'^(.*?)\s*\$', text).group(1): the shortest prefix without a
\* line break that whitespace and then a "$" follow; [found, group]
name_search(text) ==
    shortest_prefix(text,
        {k \in 0..(Len(text) - 1) :
            /\ \A i \in 1..k : text[i] /= "\n"
            /\ \E j \in k..(Len(text) - 1) :
                  /\ \A i \in (k + 1)..j : text[i] \in Whitespace
                  /\ text[j + 1] = "$"})

\* parse_menu_text from its two matches on
menu_text_record(text, price_match, name_match) ==
    IF price_match.start = 0 THEN <<>>
    ELSE IF name_match.found
    THEN << [name |-> strip(name_match.group),
             price |-> group_of(text, price_match),
             description |->
                IF price_match.end < Len(text)
                THEN strip(SubSeq(text, price_match.end + 1, Len(text)))
                ELSE <<>>] >>
    ELSE <<>>

\* parse_menu_text(text): zero or one record
parse_menu_text(text) ==
    menu_text_record(text, price_search(text), name_search(text))

\* the end of the part of item_text.split(price) that starts at `after`
part_end(item_text, g) == IF g = 0 THEN Len(item_text) ELSE g - 1

\* split(price)[0] and [1], the first occurrence of price being at f
parts_at(item_text, price, f) ==
    << SubSeq(item_text, 1, f - 1),
       SubSeq(item_text, f + Len(price),
              part_end(item_text, find_from(price, item_text, f + Len(price)))) >>

\* item_text.split(price)[0] and [1]
split_parts(item_text, price) ==
    parts_at(item_text, price, find_from(price, item_text, 1))

\* the end of parse_spenard_menu_item: no record without a name
spenard_record(name, price, description) ==
    IF name = <<>> THEN <<>>
    ELSE << [name |-> name, price |-> price, description |-> description] >>

\* name.split(' - '), the first ' - ' being at d
resplit_at(name, price, d) ==
    spenard_record(strip(strip(SubSeq(name, 1, d - 1))),
                   price,
                   strip(strip(SubSeq(name, d + Len(Dash), Len(name)))))

\* the name split further when there is no description
spenard_resplit(name, price, description) ==
    IF description = <<>> /\ contains(Dash, name)
    THEN resplit_at(name, price, find_from(Dash, name, 1))
    ELSE spenard_record(strip(name), price, strip(description))

\* name and description from the parts around the price
spenard_fields(parts, price) ==
    spenard_resplit(strip_chars(parts[1], Separators),
                    price,
                    strip_chars(parts[2], Separators))

\* parse_spenard_menu_item(text): zero or one record
parse_spenard_menu_item(text) ==
    IF price_search(text).start = 0 THEN <<>>
    ELSE spenard_fields(split_parts(strip(text), price_group(text)),
                        price_group(text))

----------------------------------------------------------------------------
(* The generic strategy: the body of extract_menu_items *)

MaxItems == 10

\* Pattern 1: divs whose class contains 'menu' or 'item'
menu_divs(soup) ==
    SelectSeq(elements_of(soup.children),
              LAMBDA e : e.tag = "div"
                            /\ class_matches(e.class, {<<"m","e","n","u">>, <<"i","t","e","m">>}))

\* Pattern 2: sections whose class contains 'dish' or 'food'
dish_sections(soup) ==
    SelectSeq(elements_of(soup.children),
              LAMBDA e : e.tag = "section"
                            /\ class_matches(e.class, {<<"d","i","s","h">>, <<"f","o","o","d">>}))

\* potential_items = menu_divs + dish_sections
potential_items(soup) == menu_divs(soup) \o dish_sections(soup)

\* a buggy cap: no limit at all
limited_unlimited(potential) == potential

\* potential_items[:10]
limited(potential) ==
    SubSeq(potential, 1, IF Len(potential) < MaxItems THEN Len(potential) ELSE MaxItems)

\* `if name and price:` and the record appended
structured_record(name, price, description) ==
    IF name /= <<>> /\ price /= <<>>
    THEN << [name |-> name, price |-> price, description |-> description] >>
    ELSE <<>>

\* one turn of the loop over the candidates: zero or one record
structured_item(item) ==
    structured_record(extract_name(item), extract_price(item),
                      extract_description(item))

\* the records of the candidates, in their order
structured_of(cands) ==
    concat([i \in 1..Len(cands) |-> structured_item(cands[i])])

\* the loop over potential_items[:10]
structured_items(soup) == structured_of(limited(potential_items(soup)))

\* each text trimmed
stripped(texts) == [i \in 1..Len(texts) |-> strip(texts[i])]

\* the fragments of the raw-text scan: find_all(string=True), those with a
\* "$" and something left after trimming, trimmed
price_strings(soup) ==
    stripped(SelectSeq(strings_of(soup.children),
                       LAMBDA t : contains(<<"$">>, t) /\ Len(strip(t)) > 0))

\* the records of the fragments, in their order
menu_texts_of(frags) ==
    concat([i \in 1..Len(frags) |-> parse_menu_text(frags[i])])

\* the raw-text scan of the generic strategy
text_scan(soup) == menu_texts_of(price_strings(soup))

\* a buggy test: scan only when the locator found no candidate
generic_scan_runs_no_candidates(menu_items, potential) == potential = <<>>

\* `if not menu_items:` before the raw-text scan
generic_scan_runs(menu_items, potential) == menu_items = <<>>

\* the placeholder record
placeholder ==
    [name |-> <<"M","e","n","u"," ","i","t","e","m">>,
     price |-> <<"$","1","0",".","0","0">>,
     description |-> <<"P","l","e","a","s","e"," ","c","h","e","c","k"," ","w","e","b","s","i","t","e"," ","f","o","r"," ","c","u","r","r","e","n","t"," ","m","e","n","u">>]

\* where a record came from
sources_of(mode, texts) ==
    [i \in 1..Len(texts) |-> [mode |-> mode, text |-> texts[i]]]

\* the text of each element
texts_of(elements) == [i \in 1..Len(elements) |-> get_text(elements[i])]

\* the fragments of the raw-text scan that parse_menu_text accepts
text_scan_sources(soup) ==
    sources_of("scan", SelectSeq(price_strings(soup),
                                 LAMBDA f : parse_menu_text(f) /= <<>>))

\* the candidates among potential_items[:10] that yield a record
structured_sources(soup) ==
    sources_of("structural",
               texts_of(SelectSeq(limited(potential_items(soup)),
                                  LAMBDA c : structured_item(c) /= <<>>)))

\* the end of extract_menu_items: the placeholder when there is no item.
\* Beside menu_items the model reports what the run did: the number of
\* candidates located, whether the raw-text scan ran, and for each record of
\* menu_items where it came from
generic_return(potential, scanned, menu_items, sources) ==
    [strategy |-> "generic",
     candidates |-> Len(potential),
     scanned |-> scanned,
     sources |-> IF menu_items = <<>>
                 THEN << [mode |-> "placeholder", text |-> <<>>] >>
                 ELSE sources,
     menu_items |-> IF menu_items = <<>> THEN <<placeholder>> ELSE menu_items]

\* extract_menu_items from the raw-text scan on
generic_scan(soup, potential, structured, sources) ==
    IF generic_scan_runs(structured, potential)
    THEN generic_return(potential, TRUE, structured \o text_scan(soup),
                        sources \o text_scan_sources(soup))
    ELSE generic_return(potential, FALSE, structured, sources)

\* extract_menu_items below the vendor test
extract_generic_menu_items(soup) ==
    generic_scan(soup, potential_items(soup), structured_items(soup),
                 structured_sources(soup))

----------------------------------------------------------------------------
(* The vendor strategy: extract_spenard_menu_items *)

\* dish_elements when no class matched: the elements whose text holds a "$"
with_price(all_elements) ==
    SelectSeq(all_elements,
              LAMBDA el : get_text(el) /= <<>> /\ contains(<<"$">>, get_text(el)))

\* `if not dish_elements:` and the more general approach
dish_elements_or(by_class, all_elements) ==
    IF by_class /= <<>> THEN by_class ELSE with_price(all_elements)

\* divs whose class contains 'dish' or 'menuitem'; when there is none, every
\* div, span and p whose text holds a "$"
dish_elements(soup) ==
    dish_elements_or(
        SelectSeq(elements_of(soup.children),
                  LAMBDA e : e.tag = "div"
                                /\ class_matches(e.class, {<<"d","i","s","h">>, <<"m","e","n","u","i","t","e","m">>})),
        SelectSeq(elements_of(soup.children),
                  LAMBDA e : e.tag \in {"div", "span", "p"}))

\* the body of the loop over dish_elements, on the element's trimmed text
spenard_text_item(text) ==
    IF text /= <<>> /\ contains(<<"$">>, text)
    THEN parse_spenard_menu_item(text)
    ELSE <<>>

\* one turn of the loop over dish_elements: zero or one record
spenard_item(element) == spenard_text_item(strip(get_text(element)))

\* the records of the elements, in their order
spenard_items_of(elements) ==
    concat([i \in 1..Len(elements) |-> spenard_item(elements[i])])

\* the records of the fragments, in their order
spenard_texts_of(frags) ==
    concat([i \in 1..Len(frags) |-> parse_spenard_menu_item(frags[i])])

\* the raw-text scan of the vendor strategy
spenard_text_scan(soup) == spenard_texts_of(price_strings(soup))

\* `if not menu_items:` before the vendor's raw-text scan
spenard_scan_runs(menu_items, elements) == menu_items = <<>>

\* the texts of dish_elements that yield a record
spenard_sources(elements) ==
    sources_of("element",
               stripped(texts_of(SelectSeq(elements,
                                           LAMBDA e : spenard_item(e) /= <<>>))))

\* the fragments of the raw-text scan that parse_spenard_menu_item accepts
spenard_scan_sources(soup) ==
    sources_of("scan", SelectSeq(price_strings(soup),
                                 LAMBDA f : parse_spenard_menu_item(f) /= <<>>))

\* what extract_spenard_menu_items returns, with the same report as the
\* generic strategy
spenard_return(elements, scanned, menu_items, sources) ==
    [strategy |-> "vendor",
     candidates |-> Len(elements),
     scanned |-> scanned,
     sources |-> sources,
     menu_items |-> menu_items]

\* extract_spenard_menu_items from the raw-text scan on
spenard_scan(soup, elements, located, sources) ==
    IF spenard_scan_runs(located, elements)
    THEN spenard_return(elements, TRUE, located \o spenard_text_scan(soup),
                        sources \o spenard_scan_sources(soup))
    ELSE spenard_return(elements, FALSE, located, sources)

\* extract_spenard_menu_items from dish_elements on
spenard_located(soup, elements) ==
    spenard_scan(soup, elements, spenard_items_of(elements),
                 spenard_sources(elements))

\* extract_spenard_menu_items(soup)
extract_spenard_menu_items(soup) == spenard_located(soup, dish_elements(soup))

----------------------------------------------------------------------------
(* Strategy resolution: the head of extract_menu_items *)

VendorKey == <<"s","p","e","n","a","r","d"," ","r","o","a","d","h","o","u","s","e">>

\* a buggy test: the name is not lowered
is_spenard_case_sensitive(restaurant_name) == contains(VendorKey, restaurant_name)

\* "spenard roadhouse" in restaurant_name.lower()
is_spenard(restaurant_name) == contains(VendorKey, lower(restaurant_name))

\* extract_menu_items(soup, restaurant_name)
extract_menu_items(soup, restaurant_name) ==
    IF is_spenard(restaurant_name)
    THEN extract_spenard_menu_items(soup)
    ELSE extract_generic_menu_items(soup)

----------------------------------------------------------------------------
(* The inputs: data/restaurants.json and the pages the sites serve *)

Restaurant(name, id) ==
    [name |-> name, website |-> id, cuisine |-> "American", menu_url |-> id]

RestaurantPool ==
    { Restaurant(<<"S","p","e","n","a","r","d"," ","R","o","a","d","h","o","u","s","e"," ","D","o","w","n","t","o","w","n">>, "a"),
      Restaurant(<<"S","P","E","N","A","R","D"," ","R","O","A","D","H","O","U","S","E">>, "b"),
      Restaurant(<<"S","p","e","n","a","r","d"," ","R","o","a","d">>, "c"),
      Restaurant(<<"M","o","o","s","e","'","s"," ","T","o","o","t","h">>, "d") }

\* every list of at most n restaurants
RestaurantLists(n) == UNION {[1..k -> RestaurantPool] : k \in 0..n}

FetchErrors == {"timeout", "404 Client Error"}

DigitChars == <<"0","1","2","3","4","5","6","7","8","9">>

\* str(k) for 0 <= k < 100
num_str(k) ==
    IF k < 10 THEN <<DigitChars[k + 1]>>
    ELSE <<DigitChars[(k \div 10) + 1], DigitChars[(k % 10) + 1]>>

P(text) == Element("p", <<>>, <<TextNode(text)>>)

\* a page of b sections of class "dish" followed by a divs of class
\* "menu-item"; every third div carries no price
ManyDoc(a, b) ==
    Soup([i \in 1..b |->
            Element("section", <<"d","i","s","h">>,
                    <<TextNode(<<"s">> \o num_str(i) \o <<" ","$">> \o num_str(i) \o <<".","5","0">>)>>)]
         \o
         [i \in 1..a |->
            Element("div", <<"m","e","n","u","-","i","t","e","m">>,
                    <<Element("b", <<>>, <<TextNode(<<"d">> \o num_str(i))>>),
                      TextNode(IF i % 3 = 0 THEN <<" ","a","s","k">>
                               ELSE <<" ","$">> \o num_str(i))>>)])

ManyDocs ==
    {ManyDoc(a, b) : a \in (MaxItems - 2)..MaxDivs, b \in 0..MaxSections}

SampleDocs ==
    { Soup(<<Element("div", <<"m","e","n","u","-","i","t","e","m">>,
                     <<Element("h3", <<>>, <<TextNode(<<"C","a","e","s","a","r"," ","S","a","l","a","d">>)>>),
                       TextNode(<<" ","$","9",".","0","0">>)>>)>>),
      Soup(<<P(<<"B","u","r","g","e","r"," ","-"," ","A","n","g","u","s"," ","b","e","e","f"," ","p","a","t","t","y"," ","w","i","t","h"," ","c","h","e","d","d","a","r","$","1","2",".","5","0"," ","s","e","r","v","e","d"," ","w","i","t","h"," ","f","r","i","e","s">>)>>),
      Soup(<<P(<<"N","a","c","h","o","s"," ","-"," ","l","o","a","d","e","d"," ","w","i","t","h"," ","c","h","e","e","s","e","$","8",".","0","0">>)>>),
      Soup(<<P(<<"C","l","o","s","e","d"," ","f","o","r"," ","t","h","e"," ","s","e","a","s","o","n">>)>>),
      Soup(<<Element("div", <<"M","e","n","u">>, <<TextNode(<<"D","a","i","l","y"," ","s","p","e","c","i","a","l","s">>)>>),
             P(<<"S","o","u","p"," ","$","5">>)>>),
      Soup(<<P(<<"$","5",".","0","0">>)>>),
      Soup(<<P(<<"C","a","s","h"," ","$"," ","o","n","l","y"," ","-"," ","P","i","e"," ","$","4"," ","o","r"," ","C","a","k","e"," ","$","4"," ","e","a","c","h">>)>>),
      Soup(<<Element("div", <<"D","i","s","h","-","c","a","r","d">>, <<TextNode(<<"H","a","l","i","b","u","t"," ","-"," ","$","2","1",".","5">>)>>)>>),
      Soup(<<P(<<"S","o","u","p","\n","o","f"," ","t","h","e"," ","d","a","y"," ","$","6">>)>>),
      Soup(<<Element("div", <<"f","o","o","d","-","m","e","n","u">>,
                     <<Element("span", <<>>, <<TextNode(<<" ","W","i","n","g","s"," ","$","7",".","2","5"," ">>)>>),
                       Element("span", <<>>, <<TextNode(<<"h","o","t"," ","-"," ","o","r"," ","m","i","l","d">>)>>)>>)>>),
      Soup(<<Element("div", <<"M","e","n","u","I","t","e","m">>,
                     <<Element("strong", <<>>, <<TextNode(<<"C","h","o","w","d","e","r">>)>>),
                       TextNode(<<" ","c","h","o","w","d","e","r"," ","$","6",".","5","0">>)>>)>>) }

ExtractDocs == SampleDocs \cup ManyDocs

LoopDocs ==
    { Soup(<<P(<<"S","o","u","p"," ","$","5">>)>>),
      Soup(<<P(<<"C","l","o","s","e","d">>)>>),
      Soup(<<Element("div", <<"d","i","s","h"," ","i","t","e","m">>, <<TextNode(<<"P","i","e"," ","-"," ","$","4",".","2","5">>)>>)>>) }

TextAlphabet == {"a", " ", "-", "$", "5", "."}

\* the string alone in a p, and alone in a div of class "menu"
TextDocs(t) ==
    { Soup(<<P(t)>>), Soup(<<Element("div", <<"m","e","n","u">>, <<TextNode(t)>>)>>) }

TextRestaurants ==
    { Restaurant(<<"S","p","e","n","a","r","d"," ","R","o","a","d","h","o","u","s","e">>, "a"), Restaurant(<<"M","o","o","s","e","'","s"," ","T","o","o","t","h">>, "d") }

----------------------------------------------------------------------------
(* scrape_restaurant_menu and the loop of scrape_all_restaurants *)

NoSoup == Soup(<<>>)

\* the dict scrape_restaurant_menu returns for the extraction x, and in
\* `did` what the extraction reports
ok_result(restaurant, soup, x) ==
    [result |-> [name |-> restaurant.name,
                 website |-> restaurant.website,
                 cuisine |-> restaurant.cuisine,
                 menu_url |-> restaurant.menu_url,
                 error |-> <<>>,
                 menu_items |-> x.menu_items],
     did |-> [fetched |-> TRUE, soup |-> soup, strategy |-> x.strategy,
              candidates |-> x.candidates, scanned |-> x.scanned,
              sources |-> x.sources]]

\* scrape_restaurant_menu(restaurant) when requests.get and raise_for_status
\* return and the page parses into `soup`
scrape_restaurant_menu_ok(restaurant, soup) ==
    ok_result(restaurant, soup, extract_menu_items(soup, restaurant.name))

\* scrape_restaurant_menu(restaurant) when the request raises e; the 'error'
\* key is <<e>> when present and <<>> when absent
scrape_restaurant_menu_except(restaurant, e) ==
    [result |-> [name |-> restaurant.name,
                 website |-> restaurant.website,
                 cuisine |-> restaurant.cuisine,
                 menu_url |-> restaurant.menu_url,
                 error |-> <<e>>,
                 menu_items |-> <<>>],
     did |-> [fetched |-> FALSE, soup |-> NoSoup, strategy |-> "none",
              candidates |-> 0, scanned |-> FALSE, sources |-> <<>>]]

InitWith(lists) ==
    /\ restaurants \in lists
    /\ results = <<>>
    /\ trace = <<>>
    /\ pc = "scraping"

Init == InitWith(RestaurantLists(MaxRestaurants))

InitExtract == InitWith({<<r>> : r \in RestaurantPool})

InitText == InitWith({<<r>> : r \in TextRestaurants})

\* results.append(result)
AppendResult(r) ==
    /\ results' = Append(results, r.result)
    /\ trace' = Append(trace, r.did)

\* a broken loop: the first failure ends the run
FetchFailsAndAborts(e) ==
    /\ pc = "scraping"
    /\ Len(results) < Len(restaurants)
    /\ pc' = "saved"
    /\ UNCHANGED <<restaurants, results, trace>>

\* one turn of the loop of scrape_all_restaurants in which the page is
\* fetched and parsed; the page is any of `docs`
FetchSucceeds(docs) ==
    /\ pc = "scraping"
    /\ Len(results) < Len(restaurants)
    /\ \E soup \in docs :
          AppendResult(scrape_restaurant_menu_ok(restaurants[Len(results) + 1], soup))
    /\ UNCHANGED <<restaurants, pc>>

\* one turn of the loop in which the request raises e
FetchFails(e) ==
    /\ pc = "scraping"
    /\ Len(results) < Len(restaurants)
    /\ AppendResult(scrape_restaurant_menu_except(restaurants[Len(results) + 1], e))
    /\ UNCHANGED <<restaurants, pc>>

\* the loop is over: the results are written and returned
SaveResults ==
    /\ pc = "scraping"
    /\ Len(results) = Len(restaurants)
    /\ pc' = "saved"
    /\ UNCHANGED <<restaurants, results, trace>>

Next ==
    \/ FetchSucceeds(LoopDocs)
    \/ \E e \in FetchErrors : FetchFails(e)
    \/ SaveResults

NextExtract ==
    \/ FetchSucceeds(ExtractDocs)
    \/ \E e \in FetchErrors : FetchFails(e)
    \/ SaveResults

\* the loop has a restaurant left
MoreToScrape == pc = "scraping" /\ Len(results) < Len(restaurants)

\* the page holds any one string of at most MaxLen characters
NextText ==
    \/ /\ MoreToScrape
       /\ \E k \in 1..MaxLen : \E t \in [1..k -> TextAlphabet] :
             FetchSucceeds(TextDocs(t))
    \/ \E e \in FetchErrors : FetchFails(e)
    \/ SaveResults

Spec == Init /\ [][Next]_vars

SpecExtract == InitExtract /\ [][NextExtract]_vars

SpecText == InitText /\ [][NextText]_vars

----------------------------------------------------------------------------
(* The claims *)

\* the restaurants scraped so far whose page was fetched
Fetched == {k \in 1..Len(results) : trace[k].fetched}

\* the positions of the records of result k
ItemsOf(k) == 1..Len(results[k].menu_items)

\* the records of result k that textual mode produced
TextualOf(k) == {j \in ItemsOf(k) : trace[k].sources[j].mode \in {"scan", "element"}}

\* s is one or more digits
AllDigits(s) == s /= <<>> /\ \A i \in 1..Len(s) : s[i] \in Digits

\* p is "$", digits and optionally "." and a fraction: of exactly two digits
\* when two_only, else of one or more digits
IsCurrencyToken(p, two_only) ==
    /\ Len(p) >= 2
    /\ p[1] = "$"
    /\ \/ AllDigits(Tail(p))
       \/ \E d \in 3..(Len(p) - 1) :
             /\ p[d] = "."
             /\ AllDigits(SubSeq(p, 2, d - 1))
             /\ AllDigits(SubSeq(p, d + 1, Len(p)))
             /\ (two_only => Len(p) - d = 2)

\* s without its leading and trailing spaces and hyphens
Trimmed(s) == strip_chars(s, Separators)

\* the part of a fragment before its first currency token, trimmed
NamePart(text) == Trimmed(SubSeq(text, 1, price_search(text).start - 1))

\* the part of a fragment after its first currency token, trimmed
DescriptionPart(text) == Trimmed(SubSeq(text, price_search(text).end + 1, Len(text)))

\* the re-split rule applies to the fragment
Resplits(text) == DescriptionPart(text) = <<>> /\ contains(Dash, NamePart(text))

\* c and d are the same letter, in any case
SameLetter(c, d) ==
    c = d \/ \E n \in 1..Len(UpperCase) : {c, d} = {UpperCase[n], LowerCase[n]}

\* the name holds the vendor key somewhere, in any letter case
NameHasVendorKey(name) ==
    \E i \in 0..(Len(name) - Len(VendorKey)) :
        \A j \in 1..Len(VendorKey) : SameLetter(name[i + j], VendorKey[j])

\* C1: every restaurant whose fetch succeeded (no error recorded) has a
\* nonempty items list, whichever strategy was resolved.
C1_ItemsNonemptyOnSuccess ==
    \A k \in 1..Len(results) :
        results[k].error = <<>> => results[k].menu_items /= <<>>

\* C2, as claimed: every price emitted is "$", digits and optionally "." and
\* exactly two digits.
C2_PricesHaveTwoDigitFraction ==
    \A k \in 1..Len(results) : \A j \in ItemsOf(k) :
        IsCurrencyToken(results[k].menu_items[j].price, TRUE)

\* C2, as amended: every price emitted by any extraction path is "$", one or
\* more digits and optionally "." and one or more digits, and nothing else.
C2_PricesMatchPattern ==
    \A k \in 1..Len(results) : \A j \in ItemsOf(k) :
        IsCurrencyToken(results[k].menu_items[j].price, FALSE)

\* a price with a fraction of a single digit was extracted from a page
C2_Witness ==
    \E k \in Fetched : \E j \in ItemsOf(k) :
        /\ trace[k].sources[j].mode /= "placeholder"
        /\ Len(results[k].menu_items[j].price) = 4
        /\ results[k].menu_items[j].price[3] = "."

\* C3: every record of every items list has a nonempty name.
C3_NamesNonempty ==
    \A k \in 1..Len(results) : \A j \in ItemsOf(k) :
        results[k].menu_items[j].name /= <<>>

\* C4: a result carries an error exactly when the fetch failed; with an error
\* the items are empty, without one there is at least one item.
C4_ErrorIffFetchFailed ==
    \A k \in 1..Len(results) :
        /\ results[k].error /= <<>> <=> ~trace[k].fetched
        /\ results[k].error /= <<>> => results[k].menu_items = <<>>
        /\ results[k].error = <<>> => Len(results[k].menu_items) >= 1

\* C5: the restaurants are processed one at a time in input order, each step
\* adds exactly the result of the next restaurant and leaves the earlier
\* results as they are, and the run ends only with one result per restaurant,
\* whatever fetches failed.
C5_OneResultPerRestaurantInOrder ==
    [][/\ Len(results') <= Len(restaurants)
       /\ Len(results') \in {Len(results), Len(results) + 1}
       /\ SubSeq(results', 1, Len(results)) = results
       /\ \A k \in 1..Len(results') :
             /\ results'[k].name = restaurants[k].name
             /\ results'[k].menu_url = restaurants[k].menu_url
       /\ pc' = "saved" => Len(results') = Len(restaurants)]_vars

\* a run ended in which the first fetch failed and the second succeeded
C5_Witness ==
    /\ pc = "saved"
    /\ Len(results) = 2
    /\ results[1].error /= <<>>
    /\ results[2].error = <<>>
    /\ results[2].menu_items /= <<>>

\* C6: a name that holds "spenard roadhouse" anywhere, in any letter case, has
\* its items from the vendor strategy alone, any other name from the generic
\* strategy alone.
C6_StrategyByName ==
    \A k \in Fetched :
        IF NameHasVendorKey(results[k].name)
        THEN /\ trace[k].strategy = "vendor"
             /\ results[k].menu_items
                    = extract_spenard_menu_items(trace[k].soup).menu_items
        ELSE /\ trace[k].strategy = "generic"
             /\ results[k].menu_items
                    = extract_generic_menu_items(trace[k].soup).menu_items

\* "Spenard Roadhouse Downtown" got records from the vendor strategy
C6_Witness ==
    \E k \in Fetched :
        /\ results[k].name = <<"S","p","e","n","a","r","d"," ","R","o","a","d","h","o","u","s","e"," ","D","o","w","n","t","o","w","n">>
        /\ trace[k].strategy = "vendor"
        /\ \E j \in ItemsOf(k) : trace[k].sources[j].mode = "element"

\* C7, as claimed: the raw-text scan runs only when the locator returned no
\* candidate.
C7_ScanOnlyWithoutCandidates ==
    \A k \in Fetched : trace[k].scanned => trace[k].candidates = 0

\* C7, as amended: the raw-text scan runs exactly when the candidates of the
\* locator yielded no record, be it that there was no candidate or that each
\* one was rejected.
C7_ScanIffNoCandidateAccepted ==
    \A k \in Fetched :
        /\ trace[k].scanned
              <=> ~\E j \in ItemsOf(k) :
                      trace[k].sources[j].mode \in {"structural", "element"}
        /\ trace[k].candidates = 0 => trace[k].scanned

\* the scan ran although the locator had returned a candidate, and gave a record
C7_Witness ==
    \E k \in Fetched :
        /\ trace[k].scanned
        /\ trace[k].candidates > 0
        /\ \E j \in ItemsOf(k) : trace[k].sources[j].mode = "scan"

\* C8: in textual mode, whether the fragment comes from the generic scan or
\* from the vendor strategy, a fragment with nothing after its price and a
\* " - " in its name is split at the first " - " into name and description.
C8_ResplitInTextualMode ==
    \A k \in Fetched : \A j \in TextualOf(k) :
        LET text == trace[k].sources[j].text
            name == NamePart(text)
            d == find_from(Dash, name, 1)
        IN  Resplits(text) =>
                /\ results[k].menu_items[j].name = strip(SubSeq(name, 1, d - 1))
                /\ results[k].menu_items[j].description
                      = strip(SubSeq(name, d + Len(Dash), Len(name)))

\* C9: in textual mode the record of a fragment has the first currency token
\* as its price, all that precedes the token as its name and all that follows
\* it as its description, each trimmed of spaces and hyphens (the re-split of
\* C8 aside).
C9_SplitAroundFirstToken ==
    \A k \in Fetched : \A j \in TextualOf(k) :
        LET text == trace[k].sources[j].text
        IN  /\ results[k].menu_items[j].price = price_group(text)
            /\ ~Resplits(text) =>
                  /\ results[k].menu_items[j].name = NamePart(text)
                  /\ results[k].menu_items[j].description = DescriptionPart(text)

\* the first 10 of the divs of scan A followed by the sections of scan B
FirstTen(soup) ==
    LET cands == menu_divs(soup) \o dish_sections(soup)
    IN  SubSeq(cands, 1, IF Len(cands) < 10 THEN Len(cands) ELSE 10)

\* C10: in the generic strategy the structural records are those of the first
\* 10 of (scan A in document order, then scan B in document order), in that
\* order; a candidate beyond the 10th gives no record.
C10_FirstTenInOrder ==
    \A k \in Fetched :
        trace[k].strategy = "generic" =>
            LET expected == structured_of(FirstTen(trace[k].soup))
            IN  IF expected /= <<>>
                THEN results[k].menu_items = expected
                ELSE \A j \in ItemsOf(k) : trace[k].sources[j].mode /= "structural"

\* a page with sections before more than 10 divs, the 11th div a good
\* candidate, gave the records of the first 10
C10_Witness ==
    \E k \in Fetched :
        /\ trace[k].strategy = "generic"
        /\ Len(menu_divs(trace[k].soup)) > 10
        /\ dish_sections(trace[k].soup) /= <<>>
        /\ structured_item(menu_divs(trace[k].soup)[11]) /= <<>>
        /\ Len(results[k].menu_items) >= 2
        /\ \A j \in ItemsOf(k) : trace[k].sources[j].mode = "structural"

====
